---- MODULE Spec2Model ----
(***************************************************************************)
(* Model of climada/engine/impact.py: Impact.calc, Impact._one_exposure    *)
(* and Impact.calc_freq_curve.                                             *)
(*                                                                         *)
(* Arithmetic is exact.  The ratios mdr, paa and fraction are stored as    *)
(* integer multiples of 1/RatioUnit, so an impact (value * mdr * fraction) *)
(* is stored as an integer multiple of 1/RatioUnit^2 of the value unit;    *)
(* at_event, eai_exp and aai_agg carry that same scale.  Frequencies are   *)
(* integer multiples of one base frequency.  Events and exposures are      *)
(* numbered from 1 (numpy numbers them from 0); centroids keep the code's  *)
(* numbers, 0.. for a centroid and a negative number for "unassigned".     *)
(* The breakpoints and intensities of the input sets make every linear     *)
(* interpolation land on a multiple of 1/RatioUnit, so Interp is exact.    *)
(*                                                                         *)
(* Spec: the caller's Exposures, impact functions and Hazard are drawn     *)
(* from the input sets, an Impact() is constructed, and calc is called on  *)
(* it any number of times, the caller writing exposures off in between.    *)
(* SpecCurve: calc_freq_curve on an Impact with any at_event >= 0 and      *)
(* frequency >= 0 within the bounds.                                       *)
(***************************************************************************)
EXTENDS Integers, Sequences, FiniteSets, TLC

VARIABLES
    exposures,      \* the Exposures object the caller passes to calc
    impact_funcs,   \* impact_funcs.get_func(haz_type): the functions of the hazard's type
    hazard,         \* the Hazard object the caller passes to calc
    at_event,       \* Impact.at_event
    eai_exp,        \* Impact.eai_exp
    frequency,      \* Impact.frequency
    tot_value,      \* Impact.tot_value
    aai_agg,        \* Impact.aai_agg
    pc,             \* "new"; "warned" or "returned": how the last calc ended; "edited": the
                    \* caller changed exposures since; "populated", "curve": before and
                    \* after calc_freq_curve
    ifc             \* the ImpactFreqCurve last returned by calc_freq_curve

vars == <<exposures, impact_funcs, hazard, at_event, eai_exp, frequency,
          tot_value, aai_agg, pc, ifc>>

----------------------------------------------------------------------------
(* Bounds and input sets *)

\* number of exposures of an Exposures object
NExp == 2
\* number of events of a Hazard object
NEv == 2
\* largest number of events of an Impact handed to calc_freq_curve
MaxEvents == 3
\* largest at_event entry of an Impact handed to calc_freq_curve
MaxImpact == 2
\* largest frequency entry of an Impact handed to calc_freq_curve
MaxFreq == 2

\* the ratios 0, 1/2 and 1, in halves
UnitRatios == {0, 1, 2}
\* the stored form of the ratio 1
RatioUnit == CHOOSE u \in UnitRatios : \A r \in UnitRatios : r <= u

Min(a, b) == IF a <= b THEN a ELSE b
Max(a, b) == IF a >= b THEN a ELSE b

\* One exposure: value, deductible, cover, impact function id, and the
\* centroid that exposures.assign(hazard) gives it (-1: none).
ExposureKinds ==
    { [value |-> 0, deductible |-> 0, cover |-> 0, impact_id |-> 1, nearest |-> 0],
      [value |-> 2, deductible |-> 0, cover |-> 2, impact_id |-> 1, nearest |-> 0],
      [value |-> 2, deductible |-> 1, cover |-> 2, impact_id |-> 1, nearest |-> 1],
      [value |-> 2, deductible |-> 0, cover |-> 1, impact_id |-> 2, nearest |-> 1],
      [value |-> 2, deductible |-> -1, cover |-> 1, impact_id |-> 2, nearest |-> 0],
      [value |-> 1, deductible |-> 0, cover |-> 1, impact_id |-> 1, nearest |-> -1] }

\* One event: intensity and fraction at each of the centroids 0 and 1, and
\* annual frequency.
\* fraction is stored only where intensity is.
EventKinds ==
    { [intensity |-> (0 :> 1 @@ 1 :> 0), fraction |-> (0 :> 2 @@ 1 :> 0), frequency |-> 1],
      [intensity |-> (0 :> 2 @@ 1 :> 1), fraction |-> (0 :> 1 @@ 1 :> 1), frequency |-> 2],
      [intensity |-> (0 :> 0 @@ 1 :> 3), fraction |-> (0 :> 0 @@ 1 :> 2), frequency |-> 1],
      [intensity |-> (0 :> 2 @@ 1 :> 2), fraction |-> (0 :> 2 @@ 1 :> 2), frequency |-> 0] }

\* Impact functions: id, sorted intensity breakpoints, mdr and paa at them.
\* mdr reaches 1 in ImpF1 and ImpF2 and 2 in ImpF1Steep; paa stays in [0,1].
ImpF1 == [id |-> 1, intensity |-> <<0, 2>>, mdr |-> <<0, 2>>, paa |-> <<2, 2>>]
ImpF1Steep == [id |-> 1, intensity |-> <<0, 2>>, mdr |-> <<0, 4>>, paa |-> <<0, 2>>]
ImpF2 == [id |-> 2, intensity |-> <<1, 3>>, mdr |-> <<0, 2>>, paa |-> <<0, 2>>]

\* What impact_funcs.get_func(haz_type) can return: functions of distinct ids.
FuncLists == { <<>>, <<ImpF1>>, <<ImpF2, ImpF1>>, <<ImpF1Steep, ImpF2>> }

\* Exposures objects: exposures.assigned holds the centroids of the hazard's
\* type, or nothing (<<>>) before exposures.assign(hazard).
ExposuresSet ==
    UNION { { [value |-> [i \in 1..NExp |-> k[i].value],
               deductible |-> [i \in 1..NExp |-> k[i].deductible],
               cover |-> [i \in 1..NExp |-> k[i].cover],
               impact_id |-> [i \in 1..NExp |-> k[i].impact_id],
               nearest |-> [i \in 1..NExp |-> k[i].nearest],
               assigned |-> a] :
              a \in { <<>>, [i \in 1..NExp |-> k[i].nearest] } } :
            k \in [1..NExp -> ExposureKinds] }

HazardSet ==
    { [intensity |-> [e \in 1..NEv |-> k[e].intensity],
       fraction |-> [e \in 1..NEv |-> k[e].fraction],
       frequency |-> [e \in 1..NEv |-> k[e].frequency]] :
      k \in [1..NEv -> EventKinds] }

----------------------------------------------------------------------------
(* Helpers *)

RECURSIVE SumSeq(_)
SumSeq(s) == IF s = <<>> THEN 0 ELSE Head(s) + SumSeq(Tail(s))

Zeros(n) == [k \in 1..n |-> 0]

\* np.interp(x, xp, fp): linear between breakpoints, flat outside them
Interp(x, xp, fp) ==
    IF x <= xp[1] THEN fp[1]
    ELSE IF x >= xp[Len(xp)] THEN fp[Len(fp)]
    ELSE LET k == CHOOSE j \in 1..(Len(xp) - 1) : xp[j] <= x /\ x < xp[j + 1]
         IN  fp[k] + ((fp[k + 1] - fp[k]) * (x - xp[k])) \div (xp[k + 1] - xp[k])

\* imp_fun.calc_mdr(inten)
CalcMdr(imp_fun, inten) == Interp(inten, imp_fun.intensity, imp_fun.mdr)

----------------------------------------------------------------------------
(* Impact._one_exposure *)

\* hazard.intensity[:, icen].nonzero()[0]: the events with intensity at icen
EventRow(haz, icen) ==
    SelectSeq([e \in 1..Len(haz.intensity) |-> e],
              LAMBDA e : haz.intensity[e][icen] # 0)

\* exposures.value[iexp] * imp_fun.calc_mdr(inten_val) * fract
RawImpact(iexp, exp, haz, imp_fun) ==
    LET icen == exp.assigned[iexp]
        event_row == EventRow(haz, icen)
    IN  [k \in 1..Len(event_row) |->
            exp.value[iexp]
            * CalcMdr(imp_fun, haz.intensity[event_row[k]][icen])
            * haz.fraction[event_row[k]][icen]]

ClipNoFloor(impact, deductible, paa, cover) ==
    Min(impact - deductible * paa * RatioUnit, cover * RatioUnit * RatioUnit)

\* np.minimum(np.maximum(impact - deductible * paa, 0), cover)
Clip(impact, deductible, paa, cover) ==
    Min(Max(impact - deductible * paa * RatioUnit, 0), cover * RatioUnit * RatioUnit)

\* whether the clipping is applied to the exposure
ClipApplies(iexp, exp) ==
    exp.deductible[iexp] > 0 \/ exp.cover[iexp] < exp.value[iexp]

OneExposure(iexp, exp, haz, imp_fun) ==
    LET icen == exp.assigned[iexp]
        event_row == EventRow(haz, icen)
        raw == RawImpact(iexp, exp, haz, imp_fun)
        paa == [k \in 1..Len(event_row) |->
                   Interp(haz.intensity[event_row[k]][icen],
                          imp_fun.intensity, imp_fun.paa)]
        impact == IF (\E k \in 1..Len(raw) : raw[k] # 0) /\ ClipApplies(iexp, exp)
                  THEN [k \in 1..Len(raw) |->
                           Clip(raw[k], exp.deductible[iexp], paa[k], exp.cover[iexp])]
                  ELSE raw
    IN  [event_row |-> event_row, impact |-> impact]

----------------------------------------------------------------------------
(* Impact.calc *)

\* np.where(value > 0 and assigned >= 0)[0], in ascending order
ExpIdx(exp) ==
    SelectSeq([i \in 1..Len(exp.value) |-> i],
              LAMBDA i : exp.value[i] > 0 /\ exp.assigned[i] >= 0)

\* at_event[event_row] += impact
AddAtEvent(at, one) ==
    [e \in 1..Len(at) |->
        at[e] + SumSeq([k \in 1..Len(one.event_row) |->
                           IF one.event_row[k] = e THEN one.impact[k] ELSE 0])]

\* sum(impact * hazard.frequency[event_row])
EaiOf(one, haz) ==
    SumSeq([k \in 1..Len(one.event_row) |->
               one.impact[k] * haz.frequency[one.event_row[k]]])

\* the body of the loop over the selected exposures of one impact function
AddExposure(acc, iexp, exp, haz, imp_fun) ==
    LET one == OneExposure(iexp, exp, haz, imp_fun)
    IN  [at_event |-> AddAtEvent(acc.at_event, one),
         eai_exp |-> [acc.eai_exp EXCEPT ![iexp] = @ + EaiOf(one, haz)],
         tot_value |-> acc.tot_value + exp.value[iexp]]

\* for iexp in exp_idx[exp_iimp]
RECURSIVE LoopExposures(_, _, _, _, _)
LoopExposures(acc, idxs, exp, haz, imp_fun) ==
    IF idxs = <<>> THEN acc
    ELSE LoopExposures(AddExposure(acc, Head(idxs), exp, haz, imp_fun),
                       Tail(idxs), exp, haz, imp_fun)

\* for imp_fun in haz_imp
RECURSIVE LoopFuncs(_, _, _, _, _)
LoopFuncs(acc, funcs, exp_idx, exp, haz) ==
    IF funcs = <<>> THEN acc
    ELSE LET imp_fun == Head(funcs)
             sel == SelectSeq(exp_idx, LAMBDA i : exp.impact_id[i] = imp_fun.id)
         IN  LoopFuncs(LoopExposures(acc, sel, exp, haz, imp_fun),
                       Tail(funcs), exp_idx, exp, haz)

\* sum(self.at_event * hazard.frequency)
AaiAgg(at, freq) == SumSeq([e \in 1..Len(at) |-> at[e] * freq[e]])

\* The Impact after self.calc(exp, funcs, haz), self being the Impact before.
CalcResult(self, exp, funcs, haz) ==
    LET init == [at_event |-> Zeros(Len(haz.intensity)),
                 eai_exp |-> Zeros(Len(exp.value)),
                 tot_value |-> 0]
        exp_idx == ExpIdx(exp)
        acc == LoopFuncs(init, funcs, exp_idx, exp, haz)
    IN  IF exp_idx = <<>>
        THEN [at_event |-> init.at_event, eai_exp |-> init.eai_exp,
              frequency |-> haz.frequency, tot_value |-> 0,
              aai_agg |-> self.aai_agg, pc |-> "warned"]
        ELSE [at_event |-> acc.at_event, eai_exp |-> acc.eai_exp,
              frequency |-> haz.frequency, tot_value |-> acc.tot_value,
              aai_agg |-> AaiAgg(acc.at_event, haz.frequency), pc |-> "returned"]

\* exposures.assign(hazard): the exposures with their centroids assigned
Assign(exp, haz) == [exp EXCEPT !.assigned = exp.nearest]

\* if (not exposures.assigned) or (haz_type not in exposures.assigned)
Assigned(exp, haz) == IF exp.assigned = <<>> THEN Assign(exp, haz) ELSE exp

\* Impact.__init__
NewImpact ==
    [at_event |-> <<>>, eai_exp |-> <<>>, frequency |-> <<>>,
     tot_value |-> 0, aai_agg |-> 0, pc |-> "new"]

\* ImpactFreqCurve.__init__
NewCurve == [return_per |-> <<>>, impact |-> <<>>]

Self ==
    [at_event |-> at_event, eai_exp |-> eai_exp, frequency |-> frequency,
     tot_value |-> tot_value, aai_agg |-> aai_agg, pc |-> pc]

Init ==
    /\ exposures \in ExposuresSet
    /\ impact_funcs \in FuncLists
    /\ hazard \in HazardSet
    /\ at_event = NewImpact.at_event
    /\ eai_exp = NewImpact.eai_exp
    /\ frequency = NewImpact.frequency
    /\ tot_value = NewImpact.tot_value
    /\ aai_agg = NewImpact.aai_agg
    /\ pc = NewImpact.pc
    /\ ifc = NewCurve

Calc ==
    LET exp == Assigned(exposures, hazard)
        r == CalcResult(Self, exp, impact_funcs, hazard)
    IN  /\ exposures' = exp
        /\ at_event' = r.at_event
        /\ eai_exp' = r.eai_exp
        /\ frequency' = r.frequency
        /\ tot_value' = r.tot_value
        /\ aai_agg' = r.aai_agg
        /\ pc' = r.pc
        /\ UNCHANGED <<impact_funcs, hazard, ifc>>

\* Between two calls the caller writes an exposure off: exposures.value[i] = 0.
\* calc reads the caller's Exposures object, which the caller may change.
WriteOff(i) ==
    /\ pc \in {"warned", "returned"}
    /\ exposures.value[i] # 0
    /\ exposures' = [exposures EXCEPT !.value[i] = 0]
    /\ pc' = "edited"
    /\ UNCHANGED <<impact_funcs, hazard, at_event, eai_exp, frequency,
                   tot_value, aai_agg, ifc>>

Next ==
    \/ Calc
    \/ \E i \in 1..NExp : WriteOff(i)

Spec == Init /\ [][Next]_vars

----------------------------------------------------------------------------
(* Impact.calc_freq_curve *)

\* the permutations of 1..n, as sequences
Perms(n) ==
    { p \in [1..n -> 1..n] : \A i, j \in 1..n : i # j => p[i] # p[j] }

\* np.argsort(a): an ordering of the indices by ascending a.  The default kind
\* is quicksort, which is not stable: equal entries come in any order.
ArgSort(a) ==
    { p \in Perms(Len(a)) : \A k \in 1..(Len(a) - 1) : a[p[k]] <= a[p[k + 1]] }

ReverseNot(s) == s

\* s[::-1]
Reverse(s) == [k \in 1..Len(s) |-> s[Len(s) + 1 - k]]

\* a[idxs]
Gather(a, idxs) == [k \in 1..Len(idxs) |-> a[idxs[k]]]

CumSumNone(s) == s

\* np.cumsum(s)
CumSum(s) == [k \in 1..Len(s) |-> SumSeq(SubSeq(s, 1, k))]

ExceedFreqUnsorted(freq, sort_idxs) == CumSum(freq)

\* np.cumsum(self.frequency[sort_idxs])
ExceedFreq(freq, sort_idxs) == CumSum(Gather(freq, sort_idxs))

\* 1/x as the exact ratio num/den; numpy's 1/0 is inf (with a warning, no
\* exception), here the ratio of denominator 0
Reciprocal(x) == [num |-> 1, den |-> x]

\* a >= b for two ratios of denominator >= 0
RatioGeq(a, b) == a.num * b.den >= b.num * a.den

\* The ImpactFreqCurve that calc_freq_curve returns when argsort yields asc.
FreqCurve(at, freq, asc) ==
    LET sort_idxs == Reverse(asc)
        exceed_freq == ExceedFreq(freq, sort_idxs)
    IN  [return_per |-> [k \in 1..Len(exceed_freq) |-> Reciprocal(exceed_freq[k])],
         impact |-> Gather(at, sort_idxs)]

\* An Impact whose at_event and frequency are populated, before any curve.
InitCurve ==
    /\ \E n \in 0..MaxEvents :
          /\ at_event \in [1..n -> 0..MaxImpact]
          /\ frequency \in [1..n -> 0..MaxFreq]
    /\ exposures = <<>>
    /\ impact_funcs = <<>>
    /\ hazard = <<>>
    /\ eai_exp = <<>>
    /\ tot_value = 0
    /\ aai_agg = AaiAgg(at_event, frequency)
    /\ pc = "populated"
    /\ ifc = NewCurve

CalcFreqCurve ==
    /\ pc = "populated"
    /\ \E asc \in ArgSort(at_event) : ifc' = FreqCurve(at_event, frequency, asc)
    /\ pc' = "curve"
    /\ UNCHANGED <<exposures, impact_funcs, hazard, at_event, eai_exp, frequency,
                   tot_value, aai_agg>>

NextCurve == CalcFreqCurve

SpecCurve == InitCurve /\ [][NextCurve]_vars

----------------------------------------------------------------------------
(* Properties of Impact.calc, checked under Spec *)

\* calc has returned and the caller has not changed its arguments since
Returned == pc \in {"warned", "returned"}

\* the exposures with a positive value and an assigned centroid
Eligible(exp) ==
    { i \in 1..Len(exp.value) : exp.value[i] > 0 /\ exp.assigned[i] >= 0 }

\* the functions of funcs that carry the impact function id of exposure i
FuncsOf(i, exp, funcs) ==
    { funcs[j] : j \in { j \in 1..Len(funcs) : funcs[j].id = exp.impact_id[i] } }

Outputs == <<at_event, eai_exp, tot_value, aai_agg>>

\* the outputs of calc on a fresh Impact() with the same arguments
FreshOutputs ==
    LET r == CalcResult(NewImpact, exposures, impact_funcs, hazard)
    IN  <<r.at_event, r.eai_exp, r.tot_value, r.aai_agg>>

\* the outputs of a second calc on this Impact with the same arguments
AgainOutputs ==
    LET r == CalcResult(Self, exposures, impact_funcs, hazard)
    IN  <<r.at_event, r.eai_exp, r.tot_value, r.aai_agg>>

\* C1: after calc returns, the sum of eai_exp over all exposures equals aai_agg.
Conservation ==
    Returned => SumSeq(eai_exp) = aai_agg

\* C2: calc never returns normally when an eligible exposure has an impact
\* function id for which the set holds no function of the hazard's type.
MissingFunctionFails ==
    Returned => \A i \in Eligible(exposures) : FuncsOf(i, exposures, impact_funcs) # {}

\* C3: when no exposure is eligible calc warns and returns an all-zero result:
\* at_event, eai_exp, tot_value and aai_agg are all 0, whatever calls came before.
EmptyResultIsZero ==
    (Returned /\ Eligible(exposures) = {}) =>
        /\ pc = "warned"
        /\ at_event = Zeros(Len(hazard.intensity))
        /\ eai_exp = Zeros(Len(exposures.value))
        /\ tot_value = 0
        /\ aai_agg = 0

\* C4: every impact value _one_exposure returns for an exposure, and calc adds
\* to at_event, is at most the exposure's cover.
ClippingLaw ==
    Returned =>
        \A i \in Eligible(exposures) : \A f \in FuncsOf(i, exposures, impact_funcs) :
            LET one == OneExposure(i, exposures, hazard, f)
            IN  \A k \in 1..Len(one.impact) :
                    one.impact[k] <= exposures.cover[i] * RatioUnit * RatioUnit

\* C5: after calc returns, every entry of at_event and eai_exp, tot_value and
\* aai_agg are >= 0 (the inputs mdr, paa, value, frequency, fraction and cover
\* being >= 0, the deductible of any sign).
NonNegative ==
    Returned =>
        /\ \A e \in 1..Len(at_event) : at_event[e] >= 0
        /\ \A i \in 1..Len(eai_exp) : eai_exp[i] >= 0
        /\ tot_value >= 0
        /\ aai_agg >= 0

\* calc has returned after clipping an exposure whose deductible exceeds a
\* non-zero raw impact: the lower bound 0 of the clipping has acted.
WitnessFloorAtZero ==
    /\ pc = "returned"
    /\ \E i \in Eligible(exposures) : \E f \in FuncsOf(i, exposures, impact_funcs) :
          LET raw == RawImpact(i, exposures, hazard, f)
              row == EventRow(hazard, exposures.assigned[i])
          IN  /\ exposures.deductible[i] > 0
              /\ \E k \in 1..Len(raw) :
                    /\ raw[k] > 0
                    /\ hazard.frequency[row[k]] > 0
                    /\ raw[k] < exposures.deductible[i] * RatioUnit
                                * Interp(hazard.intensity[row[k]][exposures.assigned[i]],
                                         f.intensity, f.paa)

\* C8: once calc has returned, a second calc with the same, unchanged arguments
\* yields the outputs of the first, on the Impact the first call populated and
\* on a fresh Impact.
Idempotent ==
    Returned => (AgainOutputs = Outputs /\ FreshOutputs = Outputs)

\* C10: after calc returns, tot_value is the sum of the values of exactly the
\* eligible exposures, and the other exposures add nothing.
TotValueOverEligible ==
    Returned =>
        /\ tot_value = SumSeq([i \in 1..Len(exposures.value) |->
                                  IF i \in Eligible(exposures)
                                  THEN exposures.value[i] ELSE 0])
        /\ \A i \in 1..Len(eai_exp) : i \notin Eligible(exposures) => eai_exp[i] = 0

----------------------------------------------------------------------------
(* Properties of Impact.calc_freq_curve, checked under SpecCurve *)

\* the frequency of equaling or exceeding impact x
ExceedanceOf(x) ==
    SumSeq([e \in 1..Len(at_event) |-> IF at_event[e] >= x THEN frequency[e] ELSE 0])

\* c.return_per[k] is 1 / s
IsReciprocalOf(r, s) == r.num * s = r.den

\* C6: return_per is non-increasing as rank increases, a zero exceedance
\* frequency giving an infinite return period.
ReturnPerNonIncreasing ==
    pc = "curve" =>
        \A k \in 1..(Len(ifc.return_per) - 1) :
            RatioGeq(ifc.return_per[k], ifc.return_per[k + 1])

\* a curve that starts with an infinite return period and ends with a finite one
WitnessInfiniteThenFinite ==
    /\ pc = "curve"
    /\ Len(ifc.return_per) >= 2
    /\ ifc.return_per[1].den = 0
    /\ ifc.return_per[Len(ifc.return_per)].den > 0

\* C7: the curve's impact is a permutation of at_event in descending order,
\* return_per[k] is 1 over the summed frequencies of the events at ranks up to
\* k of that ordering, and at_event and frequency are left unchanged.
CurveSortedCumulative ==
    [][pc' = "curve" =>
        /\ at_event' = at_event
        /\ frequency' = frequency
        /\ Len(ifc'.impact) = Len(at_event)
        /\ Len(ifc'.return_per) = Len(at_event)
        /\ \A k \in 1..(Len(at_event) - 1) : ifc'.impact[k] >= ifc'.impact[k + 1]
        /\ \E p \in Perms(Len(at_event)) : \A k \in 1..Len(at_event) :
              /\ ifc'.impact[k] = at_event[p[k]]
              /\ IsReciprocalOf(ifc'.return_per[k],
                                SumSeq([j \in 1..k |-> frequency[p[j]]]))]_vars

\* a curve of an Impact whose at_event was in ascending order, with
\* different impacts and frequencies
WitnessReordered ==
    /\ pc = "curve"
    /\ Len(at_event) >= 3
    /\ at_event[1] < at_event[2]
    /\ at_event[2] < at_event[3]
    /\ frequency[1] > frequency[3]
    /\ frequency[3] > 0

\* C9 as stated: at every rank k, 1/return_per[k] is the summed frequency of
\* the events with at_event >= impact[k], also among equal at_event values.
ExceedanceAtEveryRank ==
    pc = "curve" =>
        \A k \in 1..Len(ifc.impact) :
            IsReciprocalOf(ifc.return_per[k], ExceedanceOf(ifc.impact[k]))

\* C9 amended: at every rank k that is the last rank of its impact value,
\* 1/return_per[k] is the summed frequency of the events with
\* at_event >= impact[k].
ExceedanceAtLastOfTies ==
    pc = "curve" =>
        \A k \in 1..Len(ifc.impact) :
            (k = Len(ifc.impact) \/ ifc.impact[k + 1] < ifc.impact[k]) =>
                IsReciprocalOf(ifc.return_per[k], ExceedanceOf(ifc.impact[k]))

\* a curve where two events of equal impact and positive frequency come before
\* a lower one
WitnessTiesThenLower ==
    /\ pc = "curve"
    /\ Len(ifc.impact) >= 3
    /\ ifc.impact[1] = ifc.impact[2]
    /\ ifc.impact[3] < ifc.impact[2]
    /\ \A e \in 1..Len(frequency) : frequency[e] > 0
====
